---- MODULE Spec2Model ----
(***************************************************************************)
(* Alert correlation (agents/correlation.py): candidate pair generation,   *)
(* pairwise scoring, union-find clustering and incident aggregation.       *)
(*                                                                         *)
(* Conventions.  Python positions 0..n-1 are the positions 1..n of a TLA+  *)
(* sequence.  Timestamps and time windows are counted in ticks of          *)
(* SecondsPerTick seconds.  Probabilities and the threshold are tenths     *)
(* (5 is 0.5).  A DataFrame is the sequence of its rows.                   *)
(***************************************************************************)
EXTENDS Integers, Sequences, FiniteSets, TLC

\* ------------------------------------------------------------------ bounds
\* rows in a batch
MaxAlerts == 3
\* seconds between two consecutive timestamp values
SecondsPerTick == 40
\* texts handed to _predict_pairs in one call
MaxTexts == 3
\* elements of a UnionFind instance used on its own
UnionFindSize == 4
\* different pairs handed to union on one such instance
MaxPairs == 3
\* incidents in a frame whose rows tie on priority
MaxIncidents == 2
\* messages in a detection batch
MaxMessages == 2

\* --------------------------------------------------------------- constants
\* default batch_size of _predict_pairs
BatchSizeDefault == 32

NoModel == "None"
DefaultModelPath == "models/correlation_roberta"
OtherModelPath == "models/correlation_v2"
MissingModelPath == "models/untrained"
\* the directories that hold a config.json
TrainedModels == {DefaultModelPath, OtherModelPath}

ThreatLabels == {"brute_force", "malware"}
Severities == {"HIGH", "MEDIUM", "LOW"}

\* every string value a column can hold, in Python's (code point) order:
\* the order sort_values, groupby and Series.mode() put values in
SortedValues ==
    << "10.0.0.1", "10.0.0.2", "HIGH", "LOW", "MEDIUM", "alice", "bob",
       "brute_force", "data_exfil", "ddos", "insider_threat", "malware", "normal",
       "phishing", "ransomware" >>

SortKey(v) == CHOOSE k \in 1..Len(SortedValues) : SortedValues[k] = v

\* ------------------------------------------------------------ sequences
Range(s) == {s[k] : k \in 1..Len(s)}

RECURSIVE SumSeq(_)
SumSeq(s) == IF s = <<>> THEN 0 ELSE Head(s) + SumSeq(Tail(s))

Permutations1(n) == {p \in [1..n -> 1..n] : \A a, b \in 1..n : p[a] = p[b] => a = b}

\* ------------------------------------------------------------ UnionFind
UnionFindInit(size) ==
    [parent |-> [x \in 1..size |-> x], rank |-> [x \in 1..size |-> 0]]

\* find with path compression: the parent array after the call, and the root
RECURSIVE find(_, _)
find(parent, x) ==
    IF parent[x] # x
    THEN LET r == find(parent, parent[x])
         IN  [parent |-> [r.parent EXCEPT ![x] = r.root], root |-> r.root]
    ELSE [parent |-> parent, root |-> x]

\* union that forgets the branch for rank[root_x] > rank[root_y]
union_without_higher_rank_branch(u, x, y) ==
    LET fx == find(u.parent, x)
        fy == find(fx.parent, y)
        root_x == fx.root
        root_y == fy.root
        p == fy.parent
    IN  IF root_x = root_y THEN [parent |-> p, rank |-> u.rank]
        ELSE IF u.rank[root_x] < u.rank[root_y]
             THEN [parent |-> [p EXCEPT ![root_x] = root_y], rank |-> u.rank]
        ELSE IF u.rank[root_x] > u.rank[root_y]
             THEN [parent |-> p, rank |-> u.rank]
        ELSE [parent |-> [p EXCEPT ![root_y] = root_x],
              rank |-> [u.rank EXCEPT ![root_x] = @ + 1]]

\* union whose equal-rank branch leaves the rank as it is
union_without_rank_increment(u, x, y) ==
    LET fx == find(u.parent, x)
        fy == find(fx.parent, y)
        root_x == fx.root
        root_y == fy.root
        p == fy.parent
    IN  IF root_x = root_y THEN [parent |-> p, rank |-> u.rank]
        ELSE IF u.rank[root_x] < u.rank[root_y]
             THEN [parent |-> [p EXCEPT ![root_x] = root_y], rank |-> u.rank]
        ELSE [parent |-> [p EXCEPT ![root_y] = root_x], rank |-> u.rank]

\* union that links y itself, not its root, when the ranks are equal
union_linking_argument(u, x, y) ==
    LET fx == find(u.parent, x)
        fy == find(fx.parent, y)
        root_x == fx.root
        root_y == fy.root
        p == fy.parent
    IN  IF root_x = root_y THEN [parent |-> p, rank |-> u.rank]
        ELSE IF u.rank[root_x] < u.rank[root_y]
             THEN [parent |-> [p EXCEPT ![root_x] = root_y], rank |-> u.rank]
        ELSE IF u.rank[root_x] > u.rank[root_y]
             THEN [parent |-> [p EXCEPT ![root_y] = root_x], rank |-> u.rank]
        ELSE [parent |-> [p EXCEPT ![y] = root_x],
              rank |-> [u.rank EXCEPT ![root_x] = @ + 1]]

union(u, x, y) ==
    LET fx == find(u.parent, x)
        fy == find(fx.parent, y)
        root_x == fx.root
        root_y == fy.root
        p == fy.parent
    IN  IF root_x = root_y THEN [parent |-> p, rank |-> u.rank]
        ELSE IF u.rank[root_x] < u.rank[root_y]
             THEN [parent |-> [p EXCEPT ![root_x] = root_y], rank |-> u.rank]
        ELSE IF u.rank[root_x] > u.rank[root_y]
             THEN [parent |-> [p EXCEPT ![root_y] = root_x], rank |-> u.rank]
        ELSE [parent |-> [p EXCEPT ![root_y] = root_x],
              rank |-> [u.rank EXCEPT ![root_x] = @ + 1]]

\* the branch union takes once it has both roots
rank_branch(rank, root_x, root_y) ==
    IF root_x = root_y THEN "return"
    ELSE IF rank[root_x] < rank[root_y] THEN "less"
    ELSE IF rank[root_x] > rank[root_y] THEN "greater"
    ELSE "equal"

\* a write whose first branch links root_x to itself
parent_write_self_link(parent, branch, x, y, root_x, root_y) ==
    IF branch = "less" THEN [parent EXCEPT ![root_x] = root_x]
    ELSE [parent EXCEPT ![root_y] = root_x]

\* self.parent[root_x] = root_y, or self.parent[root_y] = root_x
parent_write(parent, branch, x, y, root_x, root_y) ==
    IF branch = "less" THEN [parent EXCEPT ![root_x] = root_y]
    ELSE [parent EXCEPT ![root_y] = root_x]

\* ------------------------------------------------- candidate pair generation
\* a frame that keeps the normal rows
non_normal_unfiltered(rows) == rows

\* threats = data[data[threat_col] != "normal"]
non_normal(rows) == SelectSeq(rows, LAMBDA r : r.threat_type # "normal")

IsSortedByTimestamp(rows) ==
    \A k \in 1..(Len(rows) - 1) : rows[k].timestamp <= rows[k + 1].timestamp

\* sort_values("timestamp") with the default kind (quicksort, not stable): any
\* arrangement of the rows in ascending timestamp order
sort_by_timestamp(rows) ==
    { s \in { [k \in 1..Len(rows) |-> rows[p[k]]] : p \in Permutations1(Len(rows)) } :
        IsSortedByTimestamp(s) }

\* a pair loop over the whole frame instead of one label group
RECURSIVE group_positions_any_label(_, _, _)
group_positions_any_label(threats, threat_type, pos) ==
    IF pos > Len(threats) THEN <<>>
    ELSE <<pos>> \o group_positions_any_label(threats, threat_type, pos + 1)

\* the positions (index column after reset_index) of one label group
RECURSIVE group_positions(_, _, _)
group_positions(threats, threat_type, pos) ==
    IF pos > Len(threats) THEN <<>>
    ELSE (IF threats[pos].threat_type = threat_type THEN <<pos>> ELSE <<>>)
         \o group_positions(threats, threat_type, pos + 1)

\* group.sort_values("timestamp").reset_index(): the group's positions in any
\* ascending timestamp order
sorted_groups(threats, threat_type) ==
    LET base == group_positions(threats, threat_type, 1)
        m == Len(base)
    IN  { g \in { [k \in 1..m |-> base[p[k]]] : p \in Permutations1(m) } :
            \A k \in 1..(m - 1) : threats[g[k]].timestamp <= threats[g[k + 1]].timestamp }

\* int(time_diff.total_seconds() / 60)
minutes_of(time_diff) == (time_diff * SecondsPerTick) \div 60

_build_pair_text(threat_type, ip_a, ip_b, time_diff_minutes) ==
    << threat_type, ip_a, ip_b, time_diff_minutes >>

\* a break that also drops the pair exactly one window apart
scan_breaks_at_window(time_diff, time_delta) == time_diff >= time_delta

\* if time_diff > time_delta: break
scan_breaks(time_diff, time_delta) == time_diff > time_delta

\* for j in range(i + 1, len(group)), left by the break
RECURSIVE inner_scan(_, _, _, _, _)
inner_scan(threats, group, i, j, time_delta) ==
    IF j > Len(group) THEN <<>>
    ELSE LET a == threats[group[i]]
             b == threats[group[j]]
             time_diff == b.timestamp - a.timestamp
         IN  IF scan_breaks(time_diff, time_delta) THEN <<>>
             ELSE << [text |-> _build_pair_text(a.threat_type, a.source_ip, b.source_ip,
                                               minutes_of(time_diff)),
                      idx_a |-> group[i], idx_b |-> group[j]] >>
                  \o inner_scan(threats, group, i, j + 1, time_delta)

\* for i in range(len(group))
RECURSIVE outer_scan(_, _, _, _)
outer_scan(threats, group, i, time_delta) ==
    IF i > Len(group) THEN <<>>
    ELSE inner_scan(threats, group, i, i + 1, time_delta)
         \o outer_scan(threats, group, i + 1, time_delta)

\* the keys of threats.groupby(threat_col), which groupby visits in sorted order
RECURSIVE groupby_keys(_, _)
groupby_keys(threats, k) ==
    IF k > Len(SortedValues) THEN <<>>
    ELSE (IF \E pos \in 1..Len(threats) : threats[pos].threat_type = SortedValues[k]
          THEN << SortedValues[k] >> ELSE <<>>)
         \o groupby_keys(threats, k + 1)

\* every outcome of the pair loop: one sorted arrangement per label group
RECURSIVE generate_pairs(_, _, _)
generate_pairs(threats, keys, time_delta) ==
    IF keys = <<>> THEN { <<>> }
    ELSE { here \o rest :
             here \in { outer_scan(threats, g, 1, time_delta) :
                          g \in sorted_groups(threats, Head(keys)) },
             rest \in generate_pairs(threats, Tail(keys), time_delta) }

\* ------------------------------------------------------------------ scoring
\* a loader that does not look for config.json
config_exists_unchecked(path) == TRUE

\* os.path.exists(config_file) in CorrelationRoBERTaModel.__init__
config_exists(path) == path \in TrainedModels

\* if _global_correlation_model is None: the model is loaded on first use only
must_load(model) == model = NoModel

Min(a, b) == IF a < b THEN a ELSE b

\* a loop that puts each batch's probabilities before those it already has
RECURSIVE _predict_pairs_prepending(_, _, _)
_predict_pairs_prepending(scorer, texts, batch_size) ==
    IF texts = <<>> THEN <<>>
    ELSE LET n == Min(Len(texts), batch_size)
             batch == SubSeq(texts, 1, n)
         IN  _predict_pairs_prepending(scorer, SubSeq(texts, n + 1, Len(texts)), batch_size)
             \o [k \in 1..n |-> scorer[batch[k]]]

\* CorrelationRoBERTaModel._predict_pairs: one probability per text, batch by batch
RECURSIVE _predict_pairs(_, _, _)
_predict_pairs(scorer, texts, batch_size) ==
    IF texts = <<>> THEN <<>>
    ELSE LET n == Min(Len(texts), batch_size)
             batch == SubSeq(texts, 1, n)
         IN  [k \in 1..n |-> scorer[batch[k]]]
             \o _predict_pairs(scorer, SubSeq(texts, n + 1, Len(texts)), batch_size)

\* --------------------------------------------------------------- clustering
\* a strict comparison with the threshold
accepted_strictly(prob, threshold) == prob > threshold

\* if prob >= threshold
accepted(prob, threshold) == prob >= threshold

\* for (idx_a, idx_b), prob in zip(pair_indices, probs); index_map is the
\* identity because threats was re-indexed 0..n-1
RECURSIVE union_accepted(_, _, _, _, _)
union_accepted(uf, pair_indices, probs, threshold, k) ==
    IF k > Min(Len(pair_indices), Len(probs)) THEN uf
    ELSE union_accepted(
             IF accepted(probs[k], threshold)
             THEN union(uf, pair_indices[k][1], pair_indices[k][2])
             ELSE uf,
             pair_indices, probs, threshold, k + 1)

\* for pos in range(len(threats)): clusters.setdefault(uf.find(pos), []).append(pos);
\* clusters is a dict, kept in insertion order; the finds compress paths
RECURSIVE collect_clusters(_, _, _)
collect_clusters(parent, pos, clusters) ==
    IF pos > Len(parent) THEN [parent |-> parent, clusters |-> clusters]
    ELSE LET f == find(parent, pos)
             known == \E c \in 1..Len(clusters) : clusters[c].root = f.root
         IN  collect_clusters(
                 f.parent, pos + 1,
                 IF known
                 THEN [c \in 1..Len(clusters) |->
                          IF clusters[c].root = f.root
                          THEN [clusters[c] EXCEPT !.members = Append(@, pos)]
                          ELSE clusters[c]]
                 ELSE Append(clusters, [root |-> f.root, members |-> <<pos>>]))

\* -------------------------------------------------------------- aggregation
Count(vals, v) == Cardinality({k \in 1..Len(vals) : vals[k] = v})

\* Series.mode()[0]: mode() returns the most frequent values sorted ascending
mode0(vals) ==
    LET top == {v \in Range(vals) : \A w \in Range(vals) : Count(vals, w) <= Count(vals, v)}
    IN  CHOOSE v \in top : \A w \in top : SortKey(v) <= SortKey(w)

RECURSIVE MinOf(_)
MinOf(s) == IF Len(s) = 1 THEN s[1] ELSE Min(Head(s), MinOf(Tail(s)))

Column(rows, name) == [k \in 1..Len(rows) |-> rows[k][name]]

\* the orders in which an interpreter's string hashing can lay out the user
\* names in a set: str hashes are salted anew for every interpreter process
HashSeeds == { << "alice", "bob" >>, << "bob", "alice" >> }

\* list(set(vals)): the distinct values, in the order the hash seed gives
list_set(vals, seed) == SelectSeq(seed, LAMBDA v : v \in Range(vals))

\* a count of the distinct users of the cluster
len_distinct_users(cluster_df) == Cardinality(Range(Column(cluster_df, "user")))

\* alert_count = len(cluster_df)
len_cluster_df(cluster_df) == Len(cluster_df)

\* one incident record; members is cluster_df's row positions in threats.  users
\* is list(set(...)); avg_confidence is the mean as sum and count.
\* Every frame has the user and severity columns.
make_incident(threats, members, time_window, seed) ==
    LET cluster_df == [k \in 1..Len(members) |-> threats[members[k]]]
        users == list_set(Column(cluster_df, "user"), seed)
    IN  [ source_ip |-> mode0(Column(cluster_df, "source_ip")),
          time_window |-> (MinOf(Column(cluster_df, "timestamp")) \div time_window) * time_window,
          threat_type |-> mode0(Column(cluster_df, "threat_type")),
          alert_count |-> len_cluster_df(cluster_df),
          avg_confidence |-> [sum |-> SumSeq(Column(cluster_df, "confidence")),
                              count |-> Len(cluster_df)],
          severity |-> mode0(Column(cluster_df, "severity")),
          users |-> users,
          user_count |-> Len(users),
          members |-> members ]

severity_order == [HIGH |-> 0, MEDIUM |-> 1, LOW |-> 2]

\* the sort key with alert_count ascending
sorts_before_ascending_count(a, b) ==
    \/ severity_order[a.severity] < severity_order[b.severity]
    \/ /\ severity_order[a.severity] = severity_order[b.severity]
       /\ a.alert_count < b.alert_count

\* the sort key ["severity_rank", "alert_count"], ascending=[True, False]
sorts_before(a, b) ==
    \/ severity_order[a.severity] < severity_order[b.severity]
    \/ /\ severity_order[a.severity] = severity_order[b.severity]
       /\ a.alert_count > b.alert_count

RECURSIVE stable_insert(_, _)
stable_insert(sorted, x) ==
    IF sorted = <<>> THEN << x >>
    ELSE IF sorts_before(x, Head(sorted)) THEN << x >> \o sorted
    ELSE << Head(sorted) >> \o stable_insert(Tail(sorted), x)

\* DataFrame.sort_values on two columns: a stable lexicographic sort
RECURSIVE sort_values(_)
sort_values(rows) ==
    IF rows = <<>> THEN <<>>
    ELSE stable_insert(sort_values(SubSeq(rows, 1, Len(rows) - 1)), rows[Len(rows)])

\* ------------------------------------------------- severity (bert_detection)
\* Confidences are hundredths (70 is 0.7).
high_risk == {"ransomware", "malware", "data_exfil", "insider_threat"}
medium_risk == {"brute_force", "phishing", "ddos"}

\* a comparison that lets 0.7 itself reach the upper tier
high_risk_severity_inclusive(confidence) == IF confidence >= 70 THEN "HIGH" ELSE "MEDIUM"

\* a third tier under 0.5
high_risk_severity_three_tier(confidence) ==
    IF confidence > 70 THEN "HIGH" ELSE IF confidence > 50 THEN "MEDIUM" ELSE "LOW"

\* "HIGH" if confidence > 0.7 else "MEDIUM"
high_risk_severity(confidence) == IF confidence > 70 THEN "HIGH" ELSE "MEDIUM"

\* a comparison turned round
medium_risk_severity_inverted(confidence) == IF confidence < 70 THEN "MEDIUM" ELSE "LOW"

\* "MEDIUM" if confidence > 0.7 else "LOW"
medium_risk_severity(confidence) == IF confidence > 70 THEN "MEDIUM" ELSE "LOW"

\* BERTLogClassifier._get_severity
_get_severity(bert_class, confidence) ==
    IF bert_class \in high_risk THEN high_risk_severity(confidence)
    ELSE IF bert_class \in medium_risk THEN medium_risk_severity(confidence)
    ELSE "LOW"

\* ------------------------------------------------ response (response_agent)
ACTIONS_TABLE ==
    [ BLOCK_IP |->
        [priority |-> 1, description |-> "Block source IP address at firewall",
         automation |-> "Can be automated", tools |-> "Firewall, IPS, WAF"],
      ISOLATE_HOST |->
        [priority |-> 1, description |-> "Quarantine infected host from network",
         automation |-> "Can be automated", tools |-> "NAC, EDR, Network segmentation"],
      ESCALATE |->
        [priority |-> 2,
         description |-> "Escalate to senior SOC analyst or incident response team",
         automation |-> "Semi-automated (alert)",
         tools |-> "SOAR, Ticketing system, PagerDuty"],
      RESET_PASSWORD |->
        [priority |-> 2, description |-> "Force password reset for affected accounts",
         automation |-> "Can be automated", tools |-> "Active Directory, IAM"],
      DISABLE_ACCOUNT |->
        [priority |-> 1, description |-> "Disable compromised user accounts",
         automation |-> "Can be automated", tools |-> "Active Directory, IAM"],
      MONITOR |->
        [priority |-> 3,
         description |-> "Continue monitoring - no immediate action required",
         automation |-> "Automated", tools |-> "SIEM, Log monitoring"],
      SCAN_SYSTEM |->
        [priority |-> 2,
         description |-> "Run full antivirus/EDR scan on affected systems",
         automation |-> "Can be automated", tools |-> "Antivirus, EDR platform"],
      BLOCK_URL |->
        [priority |-> 2, description |-> "Block malicious URLs/domains",
         automation |-> "Can be automated", tools |-> "Web proxy, DNS filtering"],
      RESTORE_BACKUP |->
        [priority |-> 1, description |-> "Restore systems from clean backup",
         automation |-> "Manual", tools |-> "Backup system, Recovery tools"],
      NOTIFY_LEGAL |->
        [priority |-> 1, description |-> "Notify legal/compliance team for data breach",
         automation |-> "Manual", tools |-> "Email, Incident management"] ]

\* the empty dict {}
EmptyDict == [k \in {} |-> 0]

\* a lookup that never finds the key
dict_get_default_only(d, key, default) == default

\* dict.get(key, default)
dict_get(d, key, default) == IF key \in DOMAIN d THEN d[key] ELSE default

get_action_details(action_name) ==
    dict_get(ACTIONS_TABLE, action_name,
             [priority |-> 3, description |-> "Unknown action",
              automation |-> "Unknown", tools |-> "Unknown"])

\* the three lambdas of recommend_response: ACTIONS.get(x, {}).get(field, default)
action_priority(x) == dict_get(dict_get(ACTIONS_TABLE, x, EmptyDict), "priority", 3)
automation_status(x) == dict_get(dict_get(ACTIONS_TABLE, x, EmptyDict), "automation", "Unknown")
action_description(x) ==
    dict_get(dict_get(ACTIONS_TABLE, x, EmptyDict), "description", "No description")

\* confidence >= h/100, for a mean kept as sum and count of hundredths
at_least(confidence, h) == confidence.sum >= h * confidence.count

\* a strict comparison with 0.95
malware_action_strict(confidence) ==
    IF confidence.sum > 95 * confidence.count THEN "ISOLATE_HOST" ELSE "SCAN_SYSTEM"

\* elif threat == 'malware'
malware_action(confidence) ==
    IF at_least(confidence, 95) THEN "ISOLATE_HOST" ELSE "SCAN_SYSTEM"

\* strict comparisons with 20 and 10
brute_force_action_strict(alert_count) ==
    IF alert_count > 20 THEN "BLOCK_IP"
    ELSE IF alert_count > 10 THEN "RESET_PASSWORD"
    ELSE "MONITOR"

\* a rule that names an action the table lacks
brute_force_action_rate_limiting(alert_count) ==
    IF alert_count >= 20 THEN "BLOCK_IP"
    ELSE IF alert_count >= 10 THEN "RATE_LIMIT"
    ELSE "MONITOR"

\* elif threat == 'brute_force'
brute_force_action(alert_count) ==
    IF alert_count >= 20 THEN "BLOCK_IP"
    ELSE IF alert_count >= 10 THEN "RESET_PASSWORD"
    ELSE "MONITOR"

\* an insider threat below 0.95 left to monitoring
insider_threat_action_monitoring(confidence) ==
    IF at_least(confidence, 95) THEN "DISABLE_ACCOUNT" ELSE "MONITOR"

\* elif threat == 'insider_threat'
insider_threat_action(confidence) ==
    IF at_least(confidence, 95) THEN "DISABLE_ACCOUNT" ELSE "ESCALATE"

\* a fallback whose MEDIUM branch escalates above 15 alerts only
severity_fallback_strict(severity, confidence, alert_count) ==
    IF severity = "HIGH"
    THEN (IF at_least(confidence, 95) THEN "BLOCK_IP" ELSE "ESCALATE")
    ELSE IF severity = "MEDIUM"
    THEN (IF alert_count > 15 THEN "ESCALATE" ELSE "MONITOR")
    ELSE "MONITOR"

\* a fallback without the HIGH branch
severity_fallback_without_high(severity, confidence, alert_count) ==
    IF severity = "MEDIUM"
    THEN (IF alert_count >= 15 THEN "ESCALATE" ELSE "MONITOR")
    ELSE "MONITOR"

\* the severity-based fallback rules
severity_fallback(severity, confidence, alert_count) ==
    IF severity = "HIGH"
    THEN (IF at_least(confidence, 95) THEN "BLOCK_IP" ELSE "ESCALATE")
    ELSE IF severity = "MEDIUM"
    THEN (IF alert_count >= 15 THEN "ESCALATE" ELSE "MONITOR")
    ELSE "MONITOR"

_determine_primary_action(row) ==
    LET threat == row.threat_type
        severity == row.severity
        confidence == row.avg_confidence
        alert_count == row.alert_count
    IN  IF threat = "ransomware" THEN "ISOLATE_HOST"
        ELSE IF threat = "malware" THEN malware_action(confidence)
        ELSE IF threat = "brute_force" THEN brute_force_action(alert_count)
        ELSE IF threat = "phishing" THEN "BLOCK_URL"
        ELSE IF threat = "data_exfil" THEN "BLOCK_IP"
        ELSE IF threat = "insider_threat" THEN insider_threat_action(confidence)
        ELSE IF threat = "ddos" THEN "BLOCK_IP"
        ELSE severity_fallback(severity, confidence, alert_count)

\* the test on the primary action turned round
ransomware_secondary_inverted(primary) ==
    IF primary = "NOTIFY_LEGAL" THEN "NOTIFY_LEGAL" ELSE "RESTORE_BACKUP"

\* if threat == 'ransomware'
ransomware_secondary(primary) ==
    IF primary # "NOTIFY_LEGAL" THEN "NOTIFY_LEGAL" ELSE "RESTORE_BACKUP"

\* a default that escalates HIGH severity whatever the primary action is
default_secondary_always_escalating(severity, primary) ==
    IF severity = "HIGH" THEN "ESCALATE" ELSE "MONITOR"

\* the last two branches: escalate high severity, monitor others
default_secondary(severity, primary) ==
    IF severity = "HIGH"
    THEN (IF primary # "ESCALATE" THEN "ESCALATE" ELSE "MONITOR")
    ELSE "MONITOR"

_determine_secondary_action(row) ==
    LET threat == row.threat_type
        primary == row.primary_action
    IN  IF threat = "ransomware" THEN ransomware_secondary(primary)
        ELSE IF threat = "data_exfil"
        THEN (IF primary # "ESCALATE" THEN "ESCALATE" ELSE "NOTIFY_LEGAL")
        ELSE IF threat = "malware"
        THEN (IF primary # "SCAN_SYSTEM" THEN "SCAN_SYSTEM" ELSE "ESCALATE")
        ELSE IF threat = "brute_force" /\ row.alert_count >= 10
        THEN (IF primary # "RESET_PASSWORD" THEN "RESET_PASSWORD" ELSE "MONITOR")
        ELSE IF threat = "insider_threat" THEN "ESCALATE"
        ELSE default_secondary(row.severity, primary)

\* a row with one more column
WithColumn(row, name, value) ==
    [f \in DOMAIN row \cup {name} |-> IF f = name THEN value ELSE row[f]]

\* lines 101-115 of recommend_response for one row
apply_rules(row) ==
    LET r1 == WithColumn(row, "primary_action", _determine_primary_action(row))
        r2 == WithColumn(r1, "secondary_action", _determine_secondary_action(r1))
        r3 == WithColumn(r2, "action_priority", action_priority(r2.primary_action))
        r4 == WithColumn(r3, "automation_status", automation_status(r3.primary_action))
    IN  WithColumn(r4, "action_description", action_description(r4.primary_action))

\* sort_values('action_priority') with the default kind (quicksort, not stable):
\* any arrangement of the rows in ascending priority
sort_by_priority(rows) ==
    { s \in { [k \in 1..Len(rows) |-> rows[p[k]]] : p \in Permutations1(Len(rows)) } :
        \A k \in 1..(Len(s) - 1) : s[k].action_priority <= s[k + 1].action_priority }

\* the rows once the five columns are assigned, before the sort
assigned_rows(enriched_df) ==
    [k \in 1..Len(enriched_df.rows) |-> apply_rules(enriched_df.rows[k])]

\* every frame recommend_response(enriched_df) can return
recommend_response_result(enriched_df) ==
    IF enriched_df.none \/ Len(enriched_df.rows) = 0 THEN { <<>> }
    ELSE sort_by_priority(assigned_rows(enriched_df))

\* a call that assigns the columns to the caller's frame itself
caller_frame_aliased(enriched_df) ==
    IF enriched_df.none \/ Len(enriched_df.rows) = 0 THEN enriched_df
    ELSE [enriched_df EXCEPT !.rows = assigned_rows(enriched_df)]

\* the caller's frame after the call: response_df = enriched_df.copy() took the
\* assignments, the frame passed in has none of them
caller_frame(enriched_df) == enriched_df

\* ------------------------------------------------------------------- state
VARIABLES
    global_correlation_model,   \* _global_correlation_model: NoModel or the loaded model's model_path
    pc,                         \* "idle": no call in progress; "returned": a call has ended
    df, time_window, model_path, threshold,   \* the arguments of the call
    threats,                    \* the non-normal rows, sorted and re-indexed
    pair_texts, pair_indices,   \* the candidate pairs
    probs,                      \* what _predict_pairs returned
    uf,                         \* the call's UnionFind
    clusters,                   \* root -> member positions, in insertion order
    incidents,                  \* the rows of the returned DataFrame
    raised,                     \* the exception the call ended with, or "none"
    hash_seed,                  \* the interpreter process's string hash order
    batch_size, model_output,   \* _predict_pairs' batch_size and the scorer's answer per text
    instance,                   \* a UnionFind object used on its own
    callers,                    \* per thread: the union call it is in and how far it has got
    requested,                  \* the pairs union was called with since the object was made
    overlapped,                 \* some step ran while another thread was inside union
    last_found,                 \* argument and result of a find call, when that was the
                                \* last call on the object
    enriched_df,                \* the argument of recommend_response
    response_df,                \* the rows of the frame recommend_response returned
    row, secondary_action,      \* _determine_secondary_action's argument and result
    action_name, action_details,   \* get_action_details' argument and result
    all_classifications, all_confidences, all_severities   \* the columns detect adds

union_find_state == << instance, callers, requested, overlapped, last_found >>

\* what the response and detection stages leave alone in correlate_alerts
response_state == << enriched_df, response_df, row, secondary_action,
                     action_name, action_details >>
detection_state == << all_classifications, all_confidences, all_severities >>
correlation_state == << global_correlation_model, df, time_window, model_path, threshold,
                        threats, pair_texts, pair_indices, probs, uf, clusters,
                        incidents, raised, hash_seed, batch_size, model_output,
                        instance, callers, requested, overlapped, last_found >>

vars == << global_correlation_model, pc, df, time_window, model_path, threshold,
           threats, pair_texts, pair_indices, probs, uf, clusters, incidents, raised,
           enriched_df, response_df, row, secondary_action, action_name, action_details,
           all_classifications, all_confidences, all_severities, hash_seed,
           batch_size, model_output, instance, callers, requested, overlapped,
           last_found >>

\* the last call was not a find call
NotFound == [x |-> 0, root |-> 0]

Threads == {1, 2}

\* a thread that is not inside union
Outside == [at |-> "outside", x |-> 0, y |-> 0, root_x |-> 0, root_y |-> 0, branch |-> ""]

NoneDf == [none |-> TRUE, rows |-> <<>>]

Init ==
    /\ global_correlation_model = NoModel
    /\ pc = "idle"
    /\ df = NoneDf
    /\ time_window = 1
    /\ model_path = DefaultModelPath
    /\ threshold = 5
    /\ threats = <<>>
    /\ pair_texts = <<>>
    /\ pair_indices = <<>>
    /\ probs = <<>>
    /\ uf = UnionFindInit(0)
    /\ clusters = <<>>
    /\ incidents = <<>>
    /\ raised = "none"
    /\ hash_seed = << "alice", "bob" >>
    /\ batch_size = BatchSizeDefault
    /\ model_output = EmptyDict
    /\ instance = UnionFindInit(UnionFindSize)
    /\ callers = [t \in Threads |-> Outside]
    /\ requested = {}
    /\ overlapped = FALSE
    /\ last_found = NotFound
    /\ enriched_df = NoneDf
    /\ response_df = <<>>
    /\ row = EmptyDict
    /\ secondary_action = ""
    /\ action_name = ""
    /\ action_details = EmptyDict
    /\ all_classifications = <<>>
    /\ all_confidences = <<>>
    /\ all_severities = <<>>

\* the state a call ends in
Ends(model, th, pairs, pr, u, cl, inc, exc) ==
    /\ global_correlation_model' = model
    /\ threats' = th
    /\ pair_texts' = [k \in 1..Len(pairs) |-> pairs[k].text]
    /\ pair_indices' = [k \in 1..Len(pairs) |-> << pairs[k].idx_a, pairs[k].idx_b >>]
    /\ probs' = pr
    /\ uf' = u
    /\ clusters' = cl
    /\ incidents' = inc
    /\ raised' = exc

\* lines 144-189 of correlate_alerts: cluster the scored pairs and aggregate
Clustered(model, th, pairs, pr, w, t, seed) ==
    LET idx == [k \in 1..Len(pairs) |-> << pairs[k].idx_a, pairs[k].idx_b >>]
        u1 == union_accepted(UnionFindInit(Len(th)), idx, pr, t, 1)
        found == collect_clusters(u1.parent, 1, <<>>)
        cl == found.clusters
        rows == [c \in 1..Len(cl) |-> make_incident(th, cl[c].members, w, seed)]
    IN  Ends(model, th, pairs, pr, [u1 EXCEPT !.parent = found.parent], cl,
             sort_values(rows), "none")

\* correlate_alerts(d, w, p, t) run by an interpreter whose cached scorer is model0
\* and whose hash order is seed, with the scorer directory contents and the
\* scorer's answers as the environment's choices
correlate_alerts_body(d, w, p, t, Scores, model0, seed) ==
    /\ df' = d
    /\ time_window' = w
    /\ model_path' = p
    /\ threshold' = t
    /\ IF d.none \/ Len(d.rows) = 0 \/ Len(non_normal(d.rows)) = 0
       THEN Ends(model0, <<>>, <<>>, <<>>, UnionFindInit(0), <<>>, <<>>, "none")
       ELSE IF must_load(model0) /\ ~config_exists(p)
       THEN Ends(NoModel, <<>>, <<>>, <<>>, UnionFindInit(0), <<>>, <<>>,
                 "FileNotFoundError")
       ELSE LET model == IF must_load(model0) THEN p ELSE model0
            IN  \E th \in sort_by_timestamp(non_normal(d.rows)) :
                \E pairs \in generate_pairs(th, groupby_keys(th, 1), w) :
                    IF pairs = <<>>
                    THEN Ends(model, th, <<>>, <<>>, UnionFindInit(0), <<>>, <<>>, "none")
                    ELSE \/ Ends(model, th, pairs, <<>>, UnionFindInit(0), <<>>, <<>>,
                                 "RuntimeError")
                         \/ \E scorer \in [{pairs[k].text : k \in 1..Len(pairs)} -> Scores] :
                                Clustered(model, th, pairs,
                                          _predict_pairs(scorer,
                                              [k \in 1..Len(pairs) |-> pairs[k].text],
                                              BatchSizeDefault),
                                          w, t, seed)

\* a call of correlate_alerts(df, time_window, model_path, threshold)
correlate_alerts(Dfs, Windows, Paths, Thresholds, Scores) ==
    /\ pc = "idle"
    /\ pc' = "returned"
    /\ UNCHANGED << response_state, detection_state, hash_seed, batch_size, model_output >>
    /\ UNCHANGED union_find_state
    /\ \E d \in Dfs, w \in Windows, p \in Paths, t \in Thresholds :
        correlate_alerts_body(d, w, p, t, Scores, global_correlation_model, hash_seed)

\* the pipeline is run again on the batch it has just answered, by the same
\* interpreter or by a new one, which has no cached scorer and its own hash seed
run_again(Scores) ==
    /\ pc = "returned"
    /\ raised = "none"
    /\ pc' = "returned"
    /\ UNCHANGED << response_state, detection_state, batch_size, model_output >>
    /\ UNCHANGED union_find_state
    /\ \/ /\ hash_seed' = hash_seed
          /\ correlate_alerts_body(df, time_window, model_path, threshold, Scores,
                                   global_correlation_model, hash_seed)
       \/ \E seed \in HashSeeds :
             /\ hash_seed' = seed
             /\ correlate_alerts_body(df, time_window, model_path, threshold, Scores,
                                      NoModel, seed)

\* the caller takes the result; the call's locals are gone
Return ==
    /\ pc = "returned"
    /\ pc' = "idle"
    /\ df' = NoneDf
    /\ time_window' = 1
    /\ model_path' = DefaultModelPath
    /\ threshold' = 5
    /\ threats' = <<>>
    /\ pair_texts' = <<>>
    /\ pair_indices' = <<>>
    /\ probs' = <<>>
    /\ uf' = UnionFindInit(0)
    /\ clusters' = <<>>
    /\ incidents' = <<>>
    /\ raised' = "none"
    /\ UNCHANGED << global_correlation_model, hash_seed, batch_size, model_output >>
    /\ UNCHANGED << response_state, detection_state, union_find_state >>

\* the correlation stage without the UnionFind object used on its own
correlation_state_beside_union_find ==
    << global_correlation_model, df, time_window, model_path, threshold, threats,
       pair_texts, pair_indices, probs, uf, clusters, incidents, raised, hash_seed,
       batch_size, model_output >>

\* everything a statement of union leaves alone
beside_union_find ==
    << pc, correlation_state_beside_union_find, response_state, detection_state,
       last_found >>

\* thread t is between the first and the last statement of a union call
Inside(t) == callers[t].at \notin {"outside", "done"}

\* thread t calls union(x, y) and runs root_x = self.find(x)
union_find_x(t, x, y) ==
    /\ callers[t].at = "outside"
    /\ LET f == find(instance.parent, x)
       IN  /\ instance' = [instance EXCEPT !.parent = f.parent]
           /\ callers' = [callers EXCEPT ![t] =
                  [at |-> "found_x", x |-> x, y |-> y, root_x |-> f.root, root_y |-> 0,
                   branch |-> ""]]
    /\ requested' = requested \cup {{x, y}}
    /\ overlapped' = (overlapped \/ \E o \in Threads \ {t} : Inside(o))
    /\ UNCHANGED beside_union_find

\* root_y = self.find(y)
union_find_y(t) ==
    /\ callers[t].at = "found_x"
    /\ LET f == find(instance.parent, callers[t].y)
       IN  /\ instance' = [instance EXCEPT !.parent = f.parent]
           /\ callers' = [callers EXCEPT ![t].at = "found_y", ![t].root_y = f.root]
    /\ overlapped' = (overlapped \/ \E o \in Threads \ {t} : Inside(o))
    /\ UNCHANGED << requested, beside_union_find >>

\* the tests on the roots and on their ranks
union_compare(t) ==
    /\ callers[t].at = "found_y"
    /\ LET b == rank_branch(instance.rank, callers[t].root_x, callers[t].root_y)
       IN  callers' = [callers EXCEPT ![t].branch = b,
                                      ![t].at = IF b = "return" THEN "done" ELSE "compared"]
    /\ overlapped' = (overlapped \/ \E o \in Threads \ {t} : Inside(o))
    /\ UNCHANGED << instance, requested, beside_union_find >>

\* the assignment to self.parent
union_write_parent(t) ==
    /\ callers[t].at = "compared"
    /\ instance' = [instance EXCEPT !.parent =
                        parent_write(@, callers[t].branch, callers[t].x, callers[t].y,
                                     callers[t].root_x, callers[t].root_y)]
    /\ callers' = [callers EXCEPT ![t].at =
                       IF callers[t].branch = "equal" THEN "linked" ELSE "done"]
    /\ overlapped' = (overlapped \/ \E o \in Threads \ {t} : Inside(o))
    /\ UNCHANGED << requested, beside_union_find >>

\* self.rank[root_x] += 1
union_write_rank(t) ==
    /\ callers[t].at = "linked"
    /\ instance' = [instance EXCEPT !.rank[callers[t].root_x] = @ + 1]
    /\ callers' = [callers EXCEPT ![t].at = "done"]
    /\ overlapped' = (overlapped \/ \E o \in Threads \ {t} : Inside(o))
    /\ UNCHANGED << requested, beside_union_find >>

\* no call is in progress; the object is dropped and a new UnionFind(size) made
new_union_find ==
    /\ \A t \in Threads : ~Inside(t)
    /\ instance' = UnionFindInit(UnionFindSize)
    /\ callers' = [t \in Threads |-> Outside]
    /\ requested' = {}
    /\ overlapped' = FALSE
    /\ last_found' = NotFound
    /\ UNCHANGED << pc, correlation_state_beside_union_find, response_state,
                    detection_state >>

\* uf.union(x, y), from its first statement to its last
union_call(x, y) ==
    /\ \A t \in Threads : callers[t].at = "outside"
    /\ instance' = union(instance, x, y)
    /\ requested' = requested \cup {{x, y}}
    /\ last_found' = NotFound
    /\ UNCHANGED << callers, overlapped >>
    /\ UNCHANGED << pc, correlation_state_beside_union_find, response_state,
                    detection_state >>

\* uf.find(x)
find_call(x) ==
    /\ \A t \in Threads : callers[t].at = "outside"
    /\ LET f == find(instance.parent, x)
       IN  /\ instance' = [instance EXCEPT !.parent = f.parent]
           /\ last_found' = [x |-> x, root |-> f.root]
    /\ UNCHANGED << callers, requested, overlapped >>
    /\ UNCHANGED << pc, correlation_state_beside_union_find, response_state,
                    detection_state >>

\* CorrelationRoBERTaModel._predict_pairs(texts, batch_size) on a loaded scorer,
\* with the scorer's answer for each text as the environment's choice
predict_pairs(Texts, BatchSizes, Scores) ==
    /\ pc = "idle"
    /\ pc' = "predicted"
    /\ \E n \in 0..MaxTexts, b \in BatchSizes, output \in [Texts -> Scores] :
        \E texts \in [1..n -> Texts] :
            /\ pair_texts' = texts
            /\ batch_size' = b
            /\ model_output' = output
            /\ probs' = _predict_pairs(output, texts, b)
    /\ UNCHANGED << global_correlation_model, df, time_window, model_path, threshold,
                    threats, pair_indices, uf, clusters, incidents, raised, hash_seed >>
    /\ UNCHANGED << response_state, detection_state, union_find_state >>

\* the caller takes the probabilities
ReturnPredict ==
    /\ pc = "predicted"
    /\ pc' = "idle"
    /\ pair_texts' = <<>>
    /\ batch_size' = BatchSizeDefault
    /\ model_output' = EmptyDict
    /\ probs' = <<>>
    /\ UNCHANGED << global_correlation_model, df, time_window, model_path, threshold,
                    threats, pair_indices, uf, clusters, incidents, raised, hash_seed >>
    /\ UNCHANGED << response_state, detection_state, union_find_state >>

\* recommend_response(enriched_df)
recommend_response(Frames) ==
    /\ pc = "idle"
    /\ pc' = "responded"
    /\ \E e \in Frames :
        /\ enriched_df' = caller_frame(e)
        /\ response_df' \in recommend_response_result(e)
    /\ UNCHANGED << row, secondary_action, action_name, action_details >>
    /\ UNCHANGED << correlation_state, detection_state >>

\* _determine_secondary_action(row) on a row whose primary action is already set
determine_secondary_action(Rows) ==
    /\ pc = "idle"
    /\ pc' = "determined"
    /\ \E r \in Rows :
        /\ row' = r
        /\ secondary_action' = _determine_secondary_action(r)
    /\ UNCHANGED << enriched_df, response_df, action_name, action_details >>
    /\ UNCHANGED << correlation_state, detection_state >>

\* get_action_details(action_name)
action_details_lookup(Names) ==
    /\ pc = "idle"
    /\ pc' = "looked_up"
    /\ \E a \in Names :
        /\ action_name' = a
        /\ action_details' = get_action_details(a)
    /\ UNCHANGED << enriched_df, response_df, row, secondary_action >>
    /\ UNCHANGED << correlation_state, detection_state >>

\* the caller drops what a response call gave it
ReturnResponse ==
    /\ pc \in {"responded", "determined", "looked_up"}
    /\ pc' = "idle"
    /\ enriched_df' = NoneDf
    /\ response_df' = <<>>
    /\ row' = EmptyDict
    /\ secondary_action' = ""
    /\ action_name' = ""
    /\ action_details' = EmptyDict
    /\ UNCHANGED << correlation_state, detection_state >>

\* BERTLogClassifier.detect on a batch of messages, with _classify_batch's
\* answers as the environment's choice
detect(Classes, Confidences) ==
    /\ pc = "idle"
    /\ pc' = "detected"
    /\ \E n \in 0..MaxMessages :
        \E results \in [1..n -> Classes \X Confidences] :
            /\ all_classifications' = [k \in 1..n |-> results[k][1]]
            /\ all_confidences' = [k \in 1..n |-> results[k][2]]
            /\ all_severities' =
                   [k \in 1..n |-> _get_severity(results[k][1], results[k][2])]
    /\ UNCHANGED << correlation_state, response_state >>

\* the caller drops the classified frame
ReturnDetect ==
    /\ pc = "detected"
    /\ pc' = "idle"
    /\ all_classifications' = <<>>
    /\ all_confidences' = <<>>
    /\ all_severities' = <<>>
    /\ UNCHANGED << correlation_state, response_state >>

\* the frame bert_detect returns: the log's own columns, here one source and
\* one user with the messages one tick apart, and the three columns detect added
detected_frame ==
    [none |-> FALSE,
     rows |-> [k \in 1..Len(all_classifications) |->
                 [timestamp |-> k - 1, source_ip |-> "10.0.0.1",
                  threat_type |-> all_classifications[k],
                  severity |-> all_severities[k],
                  user |-> "alice", confidence |-> all_confidences[k]]]]

\* the pipeline's second step: correlate_alerts on the frame bert_detect returned
correlate_detected(Windows, Scores) ==
    /\ pc = "detected"
    /\ pc' = "returned"
    /\ UNCHANGED << response_state, detection_state, hash_seed, batch_size, model_output >>
    /\ UNCHANGED union_find_state
    /\ \E w \in Windows :
        correlate_alerts_body(detected_frame, w, DefaultModelPath, 5, Scores,
                              global_correlation_model, hash_seed)

\* ------------------------------------------------------------------ inputs
Alerts(Times, Ips, Types, Sevs, Users, Confs) ==
    [timestamp : Times, source_ip : Ips, threat_type : Types, severity : Sevs,
     user : Users, confidence : Confs]

DataFrames(A, n) ==
    {NoneDf} \cup {[none |-> FALSE, rows |-> r] : r \in UNION {[1..k -> A] : k \in 0..n}}

\* batches that differ in time and label
ClusteringAlerts ==
    Alerts({0, 1, 2}, {"10.0.0.1"}, ThreatLabels \cup {"normal"}, {"HIGH"}, {"alice"}, {9})

Correlate ==
    correlate_alerts(DataFrames(ClusteringAlerts, MaxAlerts), {1, 2},
                     {DefaultModelPath}, {5}, {1, 5})

Next == Correlate \/ Return

Spec == Init /\ [][Next]_vars

\* small batches, every model_path: the scorer's loading and failing
ModelAlerts ==
    Alerts({0, 1}, {"10.0.0.1"}, {"malware", "normal"}, {"HIGH"}, {"alice"}, {9})

CorrelateWithModel ==
    correlate_alerts(DataFrames(ModelAlerts, MaxAlerts), {1},
                     {DefaultModelPath, OtherModelPath, MissingModelPath}, {5}, {1, 9})

NextModel == CorrelateWithModel \/ Return

SpecModel == Init /\ [][NextModel]_vars

\* batches of one label in strictly ascending time order, one tick apart, that
\* differ in severity and source_ip
AggregationFrames ==
    { [none |-> FALSE,
       rows |-> [k \in 1..Len(f) |->
                   [timestamp |-> k - 1, source_ip |-> f[k].source_ip,
                    threat_type |-> "brute_force", severity |-> f[k].severity,
                    user |-> "alice", confidence |-> 9]]] :
        f \in UNION { [1..n -> [source_ip : {"10.0.0.1", "10.0.0.2"}, severity : Severities]] :
                        n \in 0..MaxAlerts } }

CorrelateForAggregation ==
    correlate_alerts(AggregationFrames, {2}, {DefaultModelPath}, {5}, {1, 9})

NextAgg == CorrelateForAggregation \/ Return

SpecAgg == Init /\ [][NextAgg]_vars

\* batches of one label and one source in ascending time order, one tick apart,
\* that differ in the user
RerunFrames ==
    { [none |-> FALSE,
       rows |-> [k \in 1..Len(f) |->
                   [timestamp |-> k - 1, source_ip |-> "10.0.0.1",
                    threat_type |-> "brute_force", severity |-> "HIGH",
                    user |-> f[k], confidence |-> 9]]] :
        f \in UNION { [1..n -> {"alice", "bob"}] : n \in 0..MaxAlerts } }

CorrelateForRerun ==
    correlate_alerts(RerunFrames, {1, 2}, {DefaultModelPath}, {5}, {1, 9})

RunAgain == run_again({1, 9})

NextRerun == CorrelateForRerun \/ RunAgain \/ Return

SpecRerun == Init /\ [][NextRerun]_vars

\* pair texts of one label and source, zero to two minutes apart
PairTexts ==
    { _build_pair_text("brute_force", "10.0.0.1", "10.0.0.1", m) : m \in {0, 1, 2} }

\* batches of one element, of two, and the default
BatchSizes == {1, 2, BatchSizeDefault}

PredictPairs == predict_pairs(PairTexts, BatchSizes, {1, 5, 9})

\* batches of one label at three timestamps
ScoredAlerts ==
    Alerts({0, 1, 2}, {"10.0.0.1"}, {"brute_force"}, {"HIGH"}, {"alice"}, {9})

CorrelateScored ==
    correlate_alerts(DataFrames(ScoredAlerts, MaxAlerts), {1, 2}, {DefaultModelPath},
                     {5}, {1, 5, 9})

NextPredict == PredictPairs \/ ReturnPredict \/ CorrelateScored \/ Return

SpecPredict == Init /\ [][NextPredict]_vars

\* two threads, each making one union call on one UnionFind
UnionFindX == \E t \in Threads, x, y \in 1..UnionFindSize : union_find_x(t, x, y)
UnionFindY == \E t \in Threads : union_find_y(t)
UnionCompare == \E t \in Threads : union_compare(t)
UnionWriteParent == \E t \in Threads : union_write_parent(t)
UnionWriteRank == \E t \in Threads : union_write_rank(t)

NextThreads ==
    \/ UnionFindX \/ UnionFindY \/ UnionCompare \/ UnionWriteParent \/ UnionWriteRank
    \/ new_union_find

SpecThreads == Init /\ [][NextThreads]_vars

\* any sequence of union and find calls on one UnionFind, and new objects
UnionCall ==
    \E x, y \in 1..UnionFindSize :
        /\ x # y
        /\ Cardinality(requested \cup {{x, y}}) <= MaxPairs
        /\ union_call(x, y)
FindCall == \E x \in 1..UnionFindSize : find_call(x)

NextUnionFind == UnionCall \/ FindCall \/ new_union_find

SpecUnionFind == Init /\ [][NextUnionFind]_vars

\* incidents as the response stage reads them; avg_confidence in hundredths
Incidents(Ips, Types, Sevs, Confs, Counts) ==
    [source_ip : Ips, threat_type : Types, severity : Sevs, avg_confidence : Confs,
     alert_count : Counts, users : {<< "alice" >>}]

RuleLabels ==
    {"ransomware", "malware", "brute_force", "phishing", "data_exfil",
     "insider_threat", "ddos"}

\* labels no rule names
OtherLabels == {"normal", "zero_day"}

\* means on both sides of 0.95, of one alert and of two
Means ==
    { [sum |-> 50, count |-> 1], [sum |-> 94, count |-> 1], [sum |-> 95, count |-> 1],
      [sum |-> 100, count |-> 1], [sum |-> 189, count |-> 2], [sum |-> 190, count |-> 2] }

AlertCounts == {1, 9, 10, 11, 14, 15, 16, 19, 20, 21}

SingleIncidents ==
    Incidents({"10.0.0.1"}, RuleLabels \cup OtherLabels,
              {"HIGH", "MEDIUM", "LOW", "CRITICAL"}, Means, AlertCounts)

\* incidents that tie on priority
TiedIncidents ==
    Incidents({"10.0.0.1", "10.0.0.2"}, {"ransomware", "phishing", "normal"}, {"LOW"},
              {[sum |-> 50, count |-> 1]}, {1})

ResponseFrames ==
    DataFrames(SingleIncidents, 1) \cup DataFrames(TiedIncidents, MaxIncidents)

\* rows as _determine_secondary_action can be handed them
RowsWithPrimary ==
    { WithColumn(i, "primary_action", a) :
        i \in Incidents({"10.0.0.1"}, RuleLabels \cup OtherLabels,
                        {"HIGH", "MEDIUM", "LOW", "CRITICAL"},
                        {[sum |-> 95, count |-> 1]}, {9, 10}),
        a \in DOMAIN ACTIONS_TABLE }

ActionNames == DOMAIN ACTIONS_TABLE \cup {"UNKNOWN_ACTION"}

Respond == recommend_response(ResponseFrames)
Secondary == determine_secondary_action(RowsWithPrimary)
Details == action_details_lookup(ActionNames)

NextResponse == Respond \/ Secondary \/ Details \/ ReturnResponse

SpecResponse == Init /\ [][NextResponse]_vars

\* confidences around 0.7, in hundredths
Confidences == {0, 50, 69, 70, 71, 100}

Detect == detect(RuleLabels \cup OtherLabels, Confidences)

NextDetect == Detect \/ ReturnDetect

SpecDetect == Init /\ [][NextDetect]_vars

\* the pipeline: detection, then correlation of what was detected; confidences
\* on both sides of 0.7
DetectForPipeline == detect(RuleLabels \cup {"normal"}, {50, 71})

CorrelateDetected == correlate_detected({2}, {1, 9})

NextPipeline == DetectForPipeline \/ CorrelateDetected \/ Return

SpecPipeline == Init /\ [][NextPipeline]_vars

\* ------------------------------------------------------------ properties
\* the call ran to its end without an exception
ReturnedNormally == pc = "returned" /\ raised = "none"

\* the positions of the non-normal alerts of the batch (threats re-indexes them)
NonNormalCount == Cardinality({k \in 1..Len(df.rows) : df.rows[k].threat_type # "normal"})

NonNormalPositions == 1..NonNormalCount

Members(i) == Range(incidents[i].members)

IncidentsOf(pos) == {i \in 1..Len(incidents) : pos \in Members(i)}

SameIncident(a, b) == \E i \in 1..Len(incidents) : {a, b} \subseteq Members(i)

\* the k-th candidate pair joins a and b and its score reached the threshold
AcceptedPair(a, b) ==
    \E k \in 1..Len(pair_indices) :
        /\ k <= Len(probs)
        /\ {pair_indices[k][1], pair_indices[k][2]} = {a, b}
        /\ probs[k] >= threshold

RejectedPair(a, b) ==
    \E k \in 1..Len(pair_indices) :
        /\ k <= Len(probs)
        /\ {pair_indices[k][1], pair_indices[k][2]} = {a, b}
        /\ probs[k] < threshold

\* the positions an accepted chain links to the positions of S, in at most n steps
RECURSIVE Linked(_, _)
Linked(S, n) ==
    IF n = 0 THEN S
    ELSE Linked(S \cup {b \in 1..Len(threats) : \E a \in S : AcceptedPair(a, b)}, n - 1)

Connected(a, b) == b \in Linked({a}, Len(threats))

\* C1: after a call that raised nothing, every non-normal alert of the batch is a
\* member of exactly one returned incident and the alert_count values sum to the
\* number of non-normal alerts, for every batch, also one without candidate pairs.
C1_Partition ==
    ReturnedNormally =>
        /\ \A pos \in NonNormalPositions : Cardinality(IncidentsOf(pos)) = 1
        /\ SumSeq(Column(incidents, "alert_count")) = NonNormalCount

\* C2: when the pairs (a,b) and (b,c) were both accepted, a, b and c are members
\* of one and the same incident, whatever happened to the pair (a,c).
C2_Transitivity ==
    ReturnedNormally =>
        \A a, b, c \in 1..Len(threats) :
            (AcceptedPair(a, b) /\ AcceptedPair(b, c)) =>
                \E i \in 1..Len(incidents) : {a, b, c} \subseteq Members(i)

\* three distinct alerts merged through b although (a,c) was scored below the threshold
C2_Witness ==
    /\ ReturnedNormally
    /\ \E a, b, c \in 1..Len(threats) :
        /\ Cardinality({a, b, c}) = 3
        /\ AcceptedPair(a, b) /\ AcceptedPair(b, c) /\ RejectedPair(a, c)
        /\ \E i \in 1..Len(incidents) : {a, b, c} \subseteq Members(i)

\* C3: two distinct alerts are in the same incident exactly when a chain of
\* candidate pairs, each with score >= threshold, links them.
C3_ConnectedComponents ==
    (ReturnedNormally /\ pair_indices # <<>>) =>
        \A a, b \in 1..Len(threats) :
            a # b => (SameIncident(a, b) <=> Connected(a, b))

\* one pair accepted with a score equal to the threshold, another pair scored
\* below it whose alerts stay in different incidents
C3_Witness ==
    /\ ReturnedNormally
    /\ \E a, b \in 1..Len(threats) :
        /\ a # b /\ RejectedPair(a, b) /\ ~SameIncident(a, b)
    /\ \E k \in 1..Len(pair_indices) :
        /\ probs[k] = threshold
        /\ SameIncident(pair_indices[k][1], pair_indices[k][2])

\* all pairs of distinct same-label threats at most time_window apart
ExhaustivePairs ==
    { {a, b} : a, b \in 1..Len(threats) } \cap
    { S \in SUBSET (1..Len(threats)) :
        /\ Cardinality(S) = 2
        /\ \A a, b \in S :
            /\ threats[a].threat_type = threats[b].threat_type
            /\ threats[a].timestamp - threats[b].timestamp <= time_window }

EmittedPairs == { {pair_indices[k][1], pair_indices[k][2]} : k \in 1..Len(pair_indices) }

\* C4: the pairs emitted by the early-terminating scan are exactly the pairs of
\* distinct same-label non-normal alerts whose timestamps differ by at most the
\* window, each emitted once.
C4_ScanEqualsExhaustive ==
    pc = "returned" =>
        /\ EmittedPairs = ExhaustivePairs
        /\ Len(pair_indices) = Cardinality(ExhaustivePairs)

\* a pair exactly one window apart is emitted, a same-label pair one tick farther
\* apart is not, and a pair behind the stopped scan is still emitted
C4_Witness ==
    /\ pc = "returned"
    /\ \E a, b, c \in 1..Len(threats) :
        /\ threats[b].timestamp - threats[a].timestamp = time_window
        /\ threats[c].timestamp - threats[a].timestamp = time_window + 1
        /\ threats[a].threat_type = threats[b].threat_type
        /\ threats[a].threat_type = threats[c].threat_type
        /\ {a, b} \in EmittedPairs
        /\ {a, c} \notin EmittedPairs
        /\ {b, c} \in EmittedPairs

\* C5: no incident has two members with different labels or a member labelled
\* "normal", and its threat_type is the label its members share.
C5_LabelHomogeneity ==
    pc = "returned" =>
        \A i \in 1..Len(incidents) :
            \A a \in Members(i) :
                /\ threats[a].threat_type # "normal"
                /\ threats[a].threat_type = incidents[i].threat_type

\* a two-member incident beside an incident of another label, though the alerts
\* are all within the window of each other and every pair reached the threshold
C5_Witness ==
    /\ ReturnedNormally
    /\ \A k \in 1..Len(probs) : probs[k] >= threshold
    /\ \A a, b \in 1..Len(threats) : threats[a].timestamp - threats[b].timestamp <= time_window
    /\ \E i, j \in 1..Len(incidents) :
        /\ incidents[i].threat_type # incidents[j].threat_type
        /\ incidents[i].alert_count >= 2

\* C6: a call that ends with an exception returns no incidents and has done no
\* union; a call whose model_path holds no trained scorer, made while no scorer is
\* loaded, ends with FileNotFoundError; and unions are only done with one
\* probability for every candidate pair.
C6_ScorerErrorsPropagate ==
    pc = "returned" =>
        /\ raised # "none" =>
              incidents = <<>> /\ clusters = <<>> /\ uf = UnionFindInit(0)
        /\ (NonNormalCount > 0 /\ model_path \notin TrainedModels) =>
              \/ raised = "FileNotFoundError" /\ global_correlation_model = NoModel
              \/ global_correlation_model \in TrainedModels
        /\ uf # UnionFindInit(0) => Len(probs) = Len(pair_texts)

\* the scoring call raised with candidate pairs at hand: nothing is returned
C6_Witness ==
    /\ pc = "returned"
    /\ raised = "RuntimeError"
    /\ Len(pair_texts) >= 2
    /\ incidents = <<>>

AllNormal(d) == \A k \in 1..Len(d.rows) : d.rows[k].threat_type = "normal"

\* C7: a call whose batch is None, empty or all normal returns no incidents,
\* raises nothing, and neither loads nor calls the scorer.
C7_EmptyBatch ==
    [][ (pc = "idle" /\ pc' = "returned" /\ (df'.none \/ AllNormal(df'))) =>
            /\ incidents' = <<>>
            /\ raised' = "none"
            /\ probs' = <<>>
            /\ global_correlation_model' = global_correlation_model ]_vars

\* an all-normal batch returned empty although no scorer is loaded and model_path
\* holds none
C7_Witness ==
    /\ pc = "returned"
    /\ ~df.none /\ Len(df.rows) > 0 /\ AllNormal(df)
    /\ model_path = MissingModelPath
    /\ global_correlation_model = NoModel
    /\ incidents = <<>>
    /\ raised = "none"

\* C8: a call that scored pairs scored them with the scorer loaded from its own
\* model_path argument.
C8_ScoredByRequestedModel ==
    (pc = "returned" /\ probs # <<>>) => global_correlation_model = model_path

\* the most frequent values of a column, and of these the one that the member with
\* the smallest index carries
FirstIndexMode(vals) ==
    LET top == {v \in Range(vals) : \A w \in Range(vals) : Count(vals, w) <= Count(vals, v)}
        first == CHOOSE k \in 1..Len(vals) :
                    vals[k] \in top /\ \A j \in 1..(k - 1) : vals[j] \notin top
    IN  vals[first]

MemberColumn(i, name) ==
    [k \in 1..Len(incidents[i].members) |-> threats[incidents[i].members[k]][name]]

\* C9: source_identity and severity of an incident are the most frequent values
\* among its members, a tie going to the value of the member with the smallest index.
C9_ModeTieBreak ==
    ReturnedNormally =>
        \A i \in 1..Len(incidents) :
            /\ incidents[i].severity = FirstIndexMode(MemberColumn(i, "severity"))
            /\ incidents[i].source_ip = FirstIndexMode(MemberColumn(i, "source_ip"))

SeverityRank(sev) == CASE sev = "HIGH" -> 0 [] sev = "MEDIUM" -> 1 [] sev = "LOW" -> 2

\* C10: the returned incidents are in ascending severity rank, within one rank in
\* descending alert_count, and incidents equal in both are in the order of their
\* earliest members.
C10_IncidentOrder ==
    pc = "returned" =>
        \A i, j \in 1..Len(incidents) :
            i < j =>
                LET a == incidents[i]
                    b == incidents[j]
                IN  /\ SeverityRank(a.severity) <= SeverityRank(b.severity)
                    /\ SeverityRank(a.severity) = SeverityRank(b.severity) =>
                          /\ a.alert_count >= b.alert_count
                          /\ a.alert_count = b.alert_count => a.members[1] < b.members[1]

\* the sort moved a later cluster to the front and left two equal incidents in
\* discovery order
C10_Witness ==
    /\ ReturnedNormally
    /\ \E i, j \in 1..Len(incidents) :
        /\ i < j
        /\ incidents[i].members[1] > incidents[j].members[1]
    /\ \E i, j \in 1..Len(incidents) :
        /\ i < j
        /\ incidents[i].severity = incidents[j].severity
        /\ incidents[i].alert_count = incidents[j].alert_count

\* ------------------------------------------------- properties of detection
\* the tier of a severity, LOW lowest
Tier(sev) == CASE sev = "LOW" -> 1 [] sev = "MEDIUM" -> 2 [] sev = "HIGH" -> 3

\* C11: every classified message of a ransomware, malware, data_exfil or
\* insider_threat class has severity HIGH when its confidence is above 0.7 and MEDIUM
\* otherwise; of a brute_force, phishing or ddos class MEDIUM above 0.7 and LOW
\* otherwise; of the normal class LOW; 0.7 itself gives the lower tier.
C11_SeverityAssignment ==
    pc = "detected" =>
        \A k \in 1..Len(all_severities) :
            LET b == all_classifications[k]
                c == all_confidences[k]
                s == all_severities[k]
            IN  /\ b \in {"ransomware", "malware", "data_exfil", "insider_threat"} =>
                       /\ c > 70 => s = "HIGH"
                       /\ c <= 70 => s = "MEDIUM"
                /\ b \in {"brute_force", "phishing", "ddos"} =>
                       /\ c > 70 => s = "MEDIUM"
                       /\ c <= 70 => s = "LOW"
                /\ b = "normal" => s = "LOW"

\* a batch with a high-risk class at exactly 0.7 and a medium-risk class just above
C11_Witness ==
    /\ pc = "detected"
    /\ Len(all_severities) = 2
    /\ all_classifications[1] = "insider_threat"
    /\ all_confidences[1] = 70
    /\ all_severities[1] = "MEDIUM"
    /\ all_classifications[2] = "ddos"
    /\ all_confidences[2] = 71
    /\ all_severities[2] = "MEDIUM"

\* C12: of two classified messages of one class, the one with the higher or equal
\* confidence never has the lower severity tier.
C12_SeverityMonotonic ==
    pc = "detected" =>
        \A j, k \in 1..Len(all_severities) :
            /\ all_classifications[j] = all_classifications[k]
            /\ all_confidences[j] <= all_confidences[k]
            => Tier(all_severities[j]) <= Tier(all_severities[k])

\* two messages of one class on the two sides of 0.7, in different tiers
C12_Witness ==
    /\ pc = "detected"
    /\ Len(all_severities) = 2
    /\ all_classifications[1] = "phishing"
    /\ all_classifications[2] = "phishing"
    /\ all_confidences[1] = 50
    /\ all_confidences[2] = 100
    /\ all_severities[1] = "LOW"
    /\ all_severities[2] = "MEDIUM"

\* -------------------------------------------------- properties of response
\* recommend_response returned a frame with a row for every incident
Responded == pc = "responded" /\ Len(response_df) > 0

\* avg_confidence >= 0.95, for a mean kept as sum and count of hundredths
High95(r) == r.avg_confidence.sum >= 95 * r.avg_confidence.count

\* C13: every ransomware incident of a returned frame has primary_action
\* ISOLATE_HOST, action_priority 1 and secondary_action NOTIFY_LEGAL, whatever
\* its avg_confidence, severity and alert_count.
C13_RansomwareDeterminism ==
    pc = "responded" =>
        \A k \in 1..Len(response_df) :
            response_df[k].threat_type = "ransomware" =>
                /\ response_df[k].primary_action = "ISOLATE_HOST"
                /\ response_df[k].action_priority = 1
                /\ response_df[k].secondary_action = "NOTIFY_LEGAL"

\* a ransomware incident of the lowest severity, confidence and alert count answered
C13_Witness ==
    /\ Responded
    /\ response_df[1].threat_type = "ransomware"
    /\ response_df[1].severity = "LOW"
    /\ response_df[1].avg_confidence = [sum |-> 50, count |-> 1]
    /\ response_df[1].alert_count = 1
    /\ response_df[1].primary_action = "ISOLATE_HOST"
    /\ response_df[1].secondary_action = "NOTIFY_LEGAL"

\* C14: every brute_force incident of a returned frame has primary_action BLOCK_IP
\* when alert_count >= 20, RESET_PASSWORD when 10 <= alert_count < 20 and MONITOR
\* when alert_count < 10, whatever its severity and avg_confidence.
C14_BruteForceThresholds ==
    pc = "responded" =>
        \A k \in 1..Len(response_df) :
            LET r == response_df[k]
            IN  r.threat_type = "brute_force" =>
                    /\ r.alert_count >= 20 => r.primary_action = "BLOCK_IP"
                    /\ (r.alert_count >= 10 /\ r.alert_count < 20) =>
                           r.primary_action = "RESET_PASSWORD"
                    /\ r.alert_count < 10 => r.primary_action = "MONITOR"

\* a brute_force incident of exactly 20 alerts, of low severity and confidence, blocked
C14_Witness ==
    /\ Responded
    /\ response_df[1].threat_type = "brute_force"
    /\ response_df[1].alert_count = 20
    /\ response_df[1].severity = "LOW"
    /\ response_df[1].avg_confidence = [sum |-> 50, count |-> 1]
    /\ response_df[1].primary_action = "BLOCK_IP"

\* C15: in a returned frame malware has primary_action ISOLATE_HOST when
\* avg_confidence >= 0.95 and SCAN_SYSTEM otherwise, insider_threat DISABLE_ACCOUNT
\* when avg_confidence >= 0.95 and ESCALATE otherwise, phishing BLOCK_URL, data_exfil
\* and ddos BLOCK_IP, whatever the severity and alert_count.
C15_LabelRules ==
    pc = "responded" =>
        \A k \in 1..Len(response_df) :
            LET r == response_df[k]
            IN  /\ r.threat_type = "malware" =>
                       r.primary_action = IF High95(r) THEN "ISOLATE_HOST" ELSE "SCAN_SYSTEM"
                /\ r.threat_type = "insider_threat" =>
                       r.primary_action = IF High95(r) THEN "DISABLE_ACCOUNT" ELSE "ESCALATE"
                /\ r.threat_type = "phishing" => r.primary_action = "BLOCK_URL"
                /\ r.threat_type \in {"data_exfil", "ddos"} => r.primary_action = "BLOCK_IP"

\* a malware incident whose two alerts average exactly 0.95, of low severity, isolated
C15_Witness ==
    /\ Responded
    /\ response_df[1].threat_type = "malware"
    /\ response_df[1].avg_confidence = [sum |-> 190, count |-> 2]
    /\ response_df[1].severity = "LOW"
    /\ response_df[1].primary_action = "ISOLATE_HOST"

\* the labels the rules name
SevenRuleLabels ==
    {"ransomware", "malware", "brute_force", "phishing", "data_exfil",
     "insider_threat", "ddos"}

\* C16: in a returned frame an incident of none of the seven rule labels has
\* primary_action BLOCK_IP (avg_confidence >= 0.95) or ESCALATE when its severity is
\* HIGH, ESCALATE (alert_count >= 15) or MONITOR when it is MEDIUM, and MONITOR for
\* any other severity; an incident of a rule label has the primary_action it would
\* have with any other severity.
C16_LabelBeforeSeverity ==
    pc = "responded" =>
        \A k \in 1..Len(response_df) :
            LET r == response_df[k]
            IN  /\ r.threat_type \notin SevenRuleLabels =>
                       /\ r.severity = "HIGH" =>
                              r.primary_action = IF High95(r) THEN "BLOCK_IP" ELSE "ESCALATE"
                       /\ r.severity = "MEDIUM" =>
                              r.primary_action =
                                  IF r.alert_count >= 15 THEN "ESCALATE" ELSE "MONITOR"
                       /\ r.severity \notin {"HIGH", "MEDIUM"} => r.primary_action = "MONITOR"
                /\ r.threat_type \in SevenRuleLabels =>
                       \A s \in {"HIGH", "MEDIUM", "LOW", "CRITICAL"} :
                           _determine_primary_action([r EXCEPT !.severity = s])
                               = r.primary_action

\* an incident of an unlisted label, MEDIUM with exactly 15 alerts, escalated
C16_Witness ==
    /\ Responded
    /\ response_df[1].threat_type = "zero_day"
    /\ response_df[1].severity = "MEDIUM"
    /\ response_df[1].alert_count = 15
    /\ response_df[1].primary_action = "ESCALATE"

\* incidents whose label is neither a rule label nor normal
Unrecognised(r) == r.threat_type \notin SevenRuleLabels \cup {"normal"}

\* C17 as stated: an incident of an unrecognised label gets the default action MONITOR.
C17_UnknownLabelMonitors ==
    pc = "responded" =>
        \A k \in 1..Len(response_df) :
            Unrecognised(response_df[k]) => response_df[k].primary_action = "MONITOR"

\* C17: a frame holding an incident of an unrecognised label is answered row for
\* row with an action of the table; the incident falls through the label rules to
\* the severity fallback, and its action is MONITOR exactly when its severity is
\* neither HIGH nor MEDIUM with alert_count >= 15.
C17_UnknownLabelFallsThrough ==
    (pc = "responded" /\ ~enriched_df.none) =>
        /\ Len(response_df) = Len(enriched_df.rows)
        /\ \A k \in 1..Len(response_df) :
               LET r == response_df[k]
               IN  Unrecognised(r) =>
                       /\ r.primary_action \in DOMAIN ACTIONS_TABLE
                       /\ r.primary_action = "MONITOR" <=>
                              ~ \/ r.severity = "HIGH"
                                \/ r.severity = "MEDIUM" /\ r.alert_count >= 15

\* an incident of an unrecognised label and HIGH severity, escalated
C17_Witness ==
    /\ Responded
    /\ response_df[1].threat_type = "zero_day"
    /\ response_df[1].severity = "HIGH"
    /\ response_df[1].avg_confidence = [sum |-> 50, count |-> 1]
    /\ response_df[1].primary_action = "ESCALATE"

\* the secondary action the branches give, tried in order
ExpectedSecondary(r) ==
    CASE r.threat_type = "ransomware" ->
             (IF r.primary_action = "NOTIFY_LEGAL" THEN "RESTORE_BACKUP" ELSE "NOTIFY_LEGAL")
      [] r.threat_type = "data_exfil" ->
             (IF r.primary_action = "ESCALATE" THEN "NOTIFY_LEGAL" ELSE "ESCALATE")
      [] r.threat_type = "malware" ->
             (IF r.primary_action = "SCAN_SYSTEM" THEN "ESCALATE" ELSE "SCAN_SYSTEM")
      [] r.threat_type = "brute_force" /\ r.alert_count >= 10 ->
             (IF r.primary_action = "RESET_PASSWORD" THEN "MONITOR" ELSE "RESET_PASSWORD")
      [] r.threat_type = "insider_threat" -> "ESCALATE"
      [] OTHER ->
             (IF r.severity = "HIGH" /\ r.primary_action # "ESCALATE"
              THEN "ESCALATE" ELSE "MONITOR")

\* C18: the secondary action of a row whose primary action is set, and of every
\* row of a returned frame, is the one its label's branch gives: NOTIFY_LEGAL for
\* ransomware, ESCALATE for data_exfil, SCAN_SYSTEM for malware, RESET_PASSWORD for
\* brute_force of 10 alerts or more (each replaced when it equals the primary),
\* ESCALATE for insider_threat, and otherwise ESCALATE for HIGH severity with a
\* primary other than ESCALATE and MONITOR for the rest.
C18_SecondaryAction ==
    /\ pc = "determined" => secondary_action = ExpectedSecondary(row)
    /\ pc = "responded" =>
           \A k \in 1..Len(response_df) :
               response_df[k].secondary_action = ExpectedSecondary(response_df[k])

\* a row of an unlisted label and HIGH severity whose primary is ESCALATE, given MONITOR
C18_Witness ==
    /\ pc = "determined"
    /\ row.threat_type = "zero_day"
    /\ row.severity = "HIGH"
    /\ row.primary_action = "ESCALATE"
    /\ secondary_action = "MONITOR"

\* C19: get_action_details of a key of the table gives that entry's priority and
\* automation, and of any other name priority 3, automation "Unknown" and
\* description "Unknown action"; the columns recommend_response adds hold the
\* entry's priority and automation, and 3 and "Unknown" for a name outside the table.
C19_MetadataLookupTotal ==
    /\ pc = "looked_up" =>
           IF action_name \in DOMAIN ACTIONS_TABLE
           THEN /\ action_details.priority = ACTIONS_TABLE[action_name].priority
                /\ action_details.automation = ACTIONS_TABLE[action_name].automation
                /\ action_priority(action_name) = ACTIONS_TABLE[action_name].priority
                /\ automation_status(action_name) = ACTIONS_TABLE[action_name].automation
           ELSE /\ action_details.priority = 3
                /\ action_details.automation = "Unknown"
                /\ action_details.description = "Unknown action"
                /\ action_priority(action_name) = 3
                /\ automation_status(action_name) = "Unknown"
    /\ pc = "responded" =>
           \A k \in 1..Len(response_df) :
               LET r == response_df[k]
               IN  /\ r.action_priority = ACTIONS_TABLE[r.primary_action].priority
                   /\ r.automation_status = ACTIONS_TABLE[r.primary_action].automation

\* a name outside the table looked up
C19_Witness ==
    /\ pc = "looked_up"
    /\ action_name = "UNKNOWN_ACTION"
    /\ action_details.priority = 3
    /\ action_details.automation = "Unknown"

\* C20: every ransomware, malware, data_exfil or insider_threat incident of a
\* returned frame has action_priority 1 or 2.
C20_CriticalThreatsPrioritised ==
    pc = "responded" =>
        \A k \in 1..Len(response_df) :
            response_df[k].threat_type
                \in {"ransomware", "malware", "data_exfil", "insider_threat"}
            => response_df[k].action_priority \in {1, 2}

\* an insider threat of low severity, confidence and alert count, escalated at priority 2
C20_Witness ==
    /\ Responded
    /\ response_df[1].threat_type = "insider_threat"
    /\ response_df[1].severity = "LOW"
    /\ response_df[1].avg_confidence = [sum |-> 50, count |-> 1]
    /\ response_df[1].alert_count = 1
    /\ response_df[1].action_priority = 2

\* ------------------------------------------ properties of the later claims
\* the alerts an accepted chain links to the first member of incident i
ClusterOf(i) == {pos \in 1..Len(threats) : Connected(incidents[i].members[1], pos)}

\* C21: every returned incident has alert_count equal to the number of alerts of
\* its cluster and at least 1, and there are no more incidents than non-normal
\* alerts in the batch.
C21_AlertCount ==
    ReturnedNormally =>
        /\ \A i \in 1..Len(incidents) :
               /\ incidents[i].alert_count = Cardinality(ClusterOf(i))
               /\ incidents[i].alert_count >= 1
        /\ Len(incidents) <= NonNormalCount

\* three non-normal alerts returned as an incident of two and an incident of one
C21_Witness ==
    /\ ReturnedNormally
    /\ NonNormalCount = 3
    /\ Len(incidents) = 2
    /\ {incidents[1].alert_count, incidents[2].alert_count} = {1, 2}

\* C22: when the batch is correlated again and ends with the same clusters of the
\* same sorted alerts, the incident records are the same as the first time, field
\* for field (the users list and its order included) and in the same order.
C22_AggregatorIdempotent ==
    [][ ( /\ pc = "returned" /\ pc' = "returned"
          /\ raised' = "none"
          /\ df' = df /\ time_window' = time_window
          /\ threats' = threats /\ clusters' = clusters )
        => incidents' = incidents ]_vars

\* exactly the k-th candidate pair was scored at or above the threshold
OnlyAccepted(k) == \A j \in 1..Len(probs) : probs[j] >= threshold <=> j = k

\* C23: _predict_pairs returns one probability per text, the k-th being the
\* scorer's answer for the k-th text, for every batch size; in correlate_alerts
\* there is one probability per candidate pair, a k-th probability at or above the
\* threshold puts the two alerts of the k-th pair in one incident, and when it is
\* the only such probability no other two alerts share an incident.
C23_ScoresMappedBack ==
    /\ pc = "predicted" =>
           /\ Len(probs) = Len(pair_texts)
           /\ \A k \in 1..Len(pair_texts) : probs[k] = model_output[pair_texts[k]]
    /\ (ReturnedNormally /\ pair_indices # <<>>) =>
           /\ Len(probs) = Len(pair_indices)
           /\ \A k \in 1..Len(pair_indices) :
                  /\ probs[k] >= threshold =>
                         SameIncident(pair_indices[k][1], pair_indices[k][2])
                  /\ OnlyAccepted(k) =>
                         \A a, b \in 1..Len(threats) :
                             (a # b /\ SameIncident(a, b)) =>
                                 {a, b} = {pair_indices[k][1], pair_indices[k][2]}

\* three different texts scored in a full batch of two and a partial batch of one,
\* with three different probabilities
C23_Witness ==
    /\ pc = "predicted"
    /\ batch_size = 2
    /\ Len(pair_texts) = 3
    /\ Cardinality(Range(pair_texts)) = 3
    /\ Cardinality(Range(probs)) = 3

\* where k parent pointers lead from x
RECURSIVE Ancestor(_, _, _)
Ancestor(parent, x, k) == IF k = 0 THEN x ELSE Ancestor(parent, parent[x], k - 1)

\* the parent pointers from x reach a self-parented element
ReachesRoot(parent, x) ==
    \E k \in 0..Len(parent) : LET a == Ancestor(parent, x, k) IN parent[a] = a

Acyclic(parent) == \A x \in 1..Len(parent) : ReachesRoot(parent, x)

\* x and y lead to the same self-parented element
Merged(parent, x, y) ==
    \E k, m \in 0..Len(parent) :
        LET a == Ancestor(parent, x, k)
        IN  /\ parent[a] = a
            /\ Ancestor(parent, y, m) = a

AllOver == \A t \in Threads : callers[t].at = "done"

\* some pair union was called with is not in one set
LostMerge == \E pair \in requested : \E x, y \in pair : ~Merged(instance.parent, x, y)

\* C24: two union calls on one UnionFind of which the second began after the
\* first had ended leave parent pointers that lead every element to a root, with
\* both requested pairs merged (an interleaving is what it takes to break this).
C24_SerialUnionsSafe ==
    (AllOver /\ ~overlapped) => (Acyclic(instance.parent) /\ ~LostMerge)

\* two union calls that interleaved between their finds and their writes and left
\* parent pointers that form a cycle
C24_Witness ==
    /\ AllOver
    /\ overlapped
    /\ ~Acyclic(instance.parent)

\* two interleaved union calls after which a requested pair is not merged although
\* the parent pointers form no cycle
C24_LostMergeReached ==
    /\ AllOver
    /\ overlapped
    /\ Acyclic(instance.parent)
    /\ LostMerge

\* the parent pointers from x reach a self-parented element without a repeat:
\* the elements on the way are all different
NoRevisit(parent, x) ==
    \E k \in 0..(Len(parent) - 1) :
        /\ LET a == Ancestor(parent, x, k) IN parent[a] = a
        /\ \A i, j \in 0..k : i # j => Ancestor(parent, x, i) # Ancestor(parent, x, j)

\* C25: after any sequence of union and find calls the parent pointers lead from
\* every element to a self-parented root without visiting an element twice, every
\* element that is not a root has a rank strictly below its parent's, and the last
\* find call returned a root: an element that is its own parent.
C25_UnionFindStructure ==
    (\A t \in Threads : callers[t].at = "outside") =>
        /\ \A x \in 1..Len(instance.parent) :
               /\ NoRevisit(instance.parent, x)
               /\ instance.parent[x] # x =>
                      instance.rank[x] < instance.rank[instance.parent[x]]
        /\ last_found # NotFound =>
               /\ instance.parent[last_found.root] = last_found.root
               /\ Merged(instance.parent, last_found.x, last_found.root)

\* a tree of rank 2 whose deepest element has been found, and so hangs from the
\* root directly with its rank unchanged
C25_Witness ==
    /\ \A t \in Threads : callers[t].at = "outside"
    /\ \E r \in 1..Len(instance.parent) : instance.rank[r] = 2
    /\ last_found # NotFound
    /\ last_found.x # last_found.root
    /\ instance.parent[last_found.x] = last_found.root
    /\ instance.rank[last_found.x] = 0
    /\ \E m \in 1..Len(instance.parent) :
           /\ instance.rank[m] = 1
           /\ instance.parent[m] = last_found.root
           /\ {last_found.x, m} \in requested

\* the elements a chain of requested pairs links to the elements of S, in at most n steps
RECURSIVE RequestedLinked(_, _)
RequestedLinked(S, n) ==
    IF n = 0 THEN S
    ELSE RequestedLinked(S \cup {b \in 1..UnionFindSize : \E a \in S : {a, b} \in requested},
                         n - 1)

RequestedComponent(a) == RequestedLinked({a}, UnionFindSize)

\* the clusters correlate_alerts would collect from the object as it is
Discovered == collect_clusters(instance.parent, 1, <<>>).clusters

\* C27: whatever the order of the union calls and of their arguments, two
\* elements share a root exactly when a chain of the pairs requested so far links
\* them, and the clusters collected from the object are the components of those
\* pairs, each listed from its smallest element and in the order of their smallest
\* elements; the set of pairs alone decides both.
C27_UnionOrderIndependent ==
    (\A t \in Threads : callers[t].at = "outside") =>
        LET root == [x \in 1..UnionFindSize |->
                        Ancestor(instance.parent, x, UnionFindSize)]
            component == [x \in 1..UnionFindSize |-> RequestedComponent(x)]
            found == Discovered
        IN  /\ \A a \in 1..UnionFindSize : instance.parent[root[a]] = root[a]
            /\ \A a, b \in 1..UnionFindSize : root[a] = root[b] <=> b \in component[a]
            /\ \A c \in 1..Len(found) :
                   LET members == found[c].members
                   IN  /\ Range(members) = component[members[1]]
                       /\ \A k \in 1..(Len(members) - 1) : members[k] < members[k + 1]
            /\ \A c \in 1..(Len(found) - 1) :
                   found[c].members[1] < found[c + 1].members[1]

\* the pairs {1,2} and {2,3} unioned in an order that made 3 the root of all three
C27_Witness ==
    /\ \A t \in Threads : callers[t].at = "outside"
    /\ requested = {{1, 2}, {2, 3}}
    /\ instance.parent[3] = 3
    /\ Merged(instance.parent, 1, 3)
    /\ Merged(instance.parent, 2, 3)
    /\ Discovered[1].members = << 1, 2, 3 >>

\* the same pairs unioned in an order that made 1 the root
C27_OtherRootReached ==
    /\ \A t \in Threads : callers[t].at = "outside"
    /\ requested = {{1, 2}, {2, 3}}
    /\ instance.parent[1] = 1
    /\ Merged(instance.parent, 2, 1)
    /\ Merged(instance.parent, 3, 1)
    /\ Discovered[1].members = << 1, 2, 3 >>

\* C26: every row of a returned frame has a primary_action that is a key of the
\* table and neither NOTIFY_LEGAL nor RESTORE_BACKUP, an action_priority of 1, 2 or
\* 3 that is the table's for that action, and none of the defaults kept for
\* unknown actions.
C26_PrimaryActionKnown ==
    pc = "responded" =>
        \A k \in 1..Len(response_df) :
            LET r == response_df[k]
            IN  /\ r.primary_action \in
                       {"BLOCK_IP", "ISOLATE_HOST", "ESCALATE", "RESET_PASSWORD",
                        "DISABLE_ACCOUNT", "MONITOR", "SCAN_SYSTEM", "BLOCK_URL"}
                /\ r.primary_action \in DOMAIN ACTIONS_TABLE
                /\ r.action_priority \in {1, 2, 3}
                /\ r.action_priority = ACTIONS_TABLE[r.primary_action].priority
                /\ r.automation_status # "Unknown"
                /\ r.action_description # "No description"

\* an incident of an unlisted label and an unlisted severity, answered with the
\* table's entry for MONITOR
C26_Witness ==
    /\ Responded
    /\ response_df[1].threat_type = "zero_day"
    /\ response_df[1].severity = "CRITICAL"
    /\ response_df[1].primary_action = "MONITOR"
    /\ response_df[1].action_priority = 3
    /\ response_df[1].automation_status = "Automated"

\* C28: in every row of a returned frame the secondary_action differs from the
\* primary_action.
C28_SecondaryDiffers ==
    pc = "responded" =>
        \A k \in 1..Len(response_df) :
            response_df[k].secondary_action # response_df[k].primary_action

\* an insider threat below 0.95 whose two actions are both ESCALATE
C28_SameActionTwice ==
    /\ Responded
    /\ response_df[1].threat_type = "insider_threat"
    /\ response_df[1].avg_confidence = [sum |-> 50, count |-> 1]
    /\ response_df[1].primary_action = "ESCALATE"
    /\ response_df[1].secondary_action = "ESCALATE"

AggregatedFields ==
    {"source_ip", "threat_type", "alert_count", "avg_confidence", "severity", "users"}

ActionFields ==
    {"primary_action", "secondary_action", "action_priority", "automation_status",
     "action_description"}

\* row r without the action fields
Aggregated(r) == [f \in AggregatedFields |-> r[f]]

\* C29: the frame recommend_response returns for a frame of incidents has as many
\* rows, which are the incidents in some order, each with its aggregated fields as
\* they were and the five action fields added, in non-decreasing action_priority;
\* the frame the caller passed in still holds the incidents without action fields.
C29_ResponseIsPermutation ==
    (pc = "responded" /\ ~enriched_df.none) =>
        /\ Len(response_df) = Len(enriched_df.rows)
        /\ \E p \in Permutations1(Len(response_df)) :
               \A k \in 1..Len(response_df) :
                   Aggregated(response_df[k]) = enriched_df.rows[p[k]]
        /\ \A k \in 1..Len(response_df) :
               DOMAIN response_df[k] = AggregatedFields \cup ActionFields
        /\ \A k \in 1..Len(enriched_df.rows) :
               DOMAIN enriched_df.rows[k] = AggregatedFields
        /\ \A k \in 1..(Len(response_df) - 1) :
               response_df[k].action_priority <= response_df[k + 1].action_priority

\* two incidents returned in the other order: the priority 1 incident, passed in
\* second, comes back first
C29_Witness ==
    /\ pc = "responded"
    /\ Len(response_df) = 2
    /\ enriched_df.rows[1].threat_type = "normal"
    /\ enriched_df.rows[2].threat_type = "ransomware"
    /\ Aggregated(response_df[1]) = enriched_df.rows[2]
    /\ Aggregated(response_df[2]) = enriched_df.rows[1]
    /\ response_df[1].action_priority = 1
    /\ response_df[2].action_priority = 3

\* the pipeline's frame carries for every alert the severity _get_severity gives
SeveritiesAssigned ==
    /\ ~df.none
    /\ \A k \in 1..Len(df.rows) :
           df.rows[k].severity =
               _get_severity(df.rows[k].threat_type, df.rows[k].confidence)

\* C30: when every alert's severity is the one _get_severity gives for its label
\* and confidence, an incident with a high-risk label has severity HIGH or MEDIUM,
\* never LOW, and an incident with a medium-risk label has severity MEDIUM or LOW,
\* never HIGH.
C30_IncidentSeverityInBand ==
    (pc = "returned" /\ raised = "none") =>
        \A i \in 1..Len(incidents) :
            /\ incidents[i].threat_type \in
                   {"ransomware", "malware", "data_exfil", "insider_threat"}
                   => incidents[i].severity \in {"HIGH", "MEDIUM"}
            /\ incidents[i].threat_type \in {"brute_force", "phishing", "ddos"}
                   => incidents[i].severity \in {"MEDIUM", "LOW"}

\* an incident of two malware alerts, one HIGH and one MEDIUM
C30_Witness ==
    /\ pc = "returned"
    /\ SeveritiesAssigned
    /\ Len(incidents) = 1
    /\ incidents[1].threat_type = "malware"
    /\ incidents[1].alert_count = 2
    /\ all_severities = << "HIGH", "MEDIUM" >>
    /\ incidents[1].severity = "HIGH"

\* an incident of two ddos alerts, one LOW and one MEDIUM
C30_MediumRiskIncident ==
    /\ pc = "returned"
    /\ SeveritiesAssigned
    /\ Len(incidents) = 1
    /\ incidents[1].threat_type = "ddos"
    /\ incidents[1].alert_count = 2
    /\ all_severities = << "LOW", "MEDIUM" >>
    /\ incidents[1].severity = "LOW"

====
